---- MODULE Spec2Model ----
(***************************************************************************)
(* A model of the atlas packing engine, src-tauri/src/atlas_packer.rs      *)
(* (pack_atlas), reached through the create_atlas command of lib.rs.       *)
(*                                                                         *)
(* One call of pack_atlas is one behaviour: Init draws the call's input    *)
(* (sprite list, padding), the actions are the steps of the function       *)
(* (decode, the scale loop, the bin loop, compositing/manifest), and the   *)
(* terminal states hold what the call returns.                             *)
(*                                                                         *)
(* Numbers.  Pixel sizes are the program's own (256 .. 2048 bins, sprites  *)
(* of up to 11000 px).  A scale factor is held in percent (0.25 is 25):    *)
(* for every integer v with |v| <= 70000 and every factor f of the list,   *)
(* ((v as f32) * f).round() equals v * percent / 100 rounded half away     *)
(* from zero, so the f32 computation is modelled by that integer one.      *)
(* Paddings are kept far below 2^31, where the u32 sums of the code do     *)
(* not wrap.                                                               *)
(*                                                                         *)
(* The rectangle packer (crate rectangle_pack) is not part of the          *)
(* repository.  It is modelled by its contract: pack_rects either fails    *)
(* or returns, for every rectangle, a position inside the bin, no two      *)
(* rectangles overlapping; it must fail when no such placement exists and  *)
(* must succeed for a single rectangle that fits.  The order in which      *)
(* packed_locations() is iterated is the crate's map's; pack_atlas does    *)
(* not sort, so the compositing loop may visit the placements in any       *)
(* order.                                                                  *)
(***************************************************************************)
EXTENDS Integers, Sequences, FiniteSets

\* ------------------------------------------------------------ bounds
MaxSprites == 2
MaxPadding == 1

\* ------------------------------------------------- program constants
max_size == 2048
InitialBinSize == 256
\* [1.0, 0.9, 0.8, 0.7, 0.6, 0.5, 0.4, 0.3, 0.25, 0.2], in percent
scale_factors == <<100, 90, 80, 70, 60, 50, 40, 30, 25, 20>>

ErrDecode == "decode error"
ErrEmpty == "No images to pack"
ErrCopy == "copy_from: image dimensions"
ErrTooLarge == "Images too large to pack even at 20% scale"

\* ------------------------------------------------------------ inputs
\* A sprite as the caller passes it.  w, h: the size of the PNG its base64
\* field decodes to; decodes = FALSE: base64 or PNG decoding fails.
Sprite(n, w, h, ox, oy, d) ==
    [name |-> n, w |-> w, h |-> h, offset_x |-> ox, offset_y |-> oy, decodes |-> d]

Catalogue ==
    { Sprite("a", 100, 50, 5, -5, TRUE),      \* fits the first bin
      Sprite("c", 5000, 5000, 0, 0, TRUE),    \* fits only from scale 0.4
      Sprite("d", 11000, 1, 0, 0, TRUE),      \* 2200 px wide even at 0.2
      Sprite("a", 5000, 1, -3, 4, TRUE),      \* height rounds to 0 at 0.4;
                                              \* a second sprite named "a"
      Sprite("g", 2047, 10, 5, -5, TRUE),     \* 2048 bin; padded, from 0.9
      Sprite("x", 1, 1, 0, 0, FALSE) }        \* undecodable

SpriteInputs == UNION { [1..n -> Catalogue] : n \in 0..MaxSprites }
Paddings == 0..MaxPadding

\* ------------------------------------------------------------- state
VARIABLES
    sprites,          \* argument: Vec<SpriteInput>
    padding,          \* argument: u32
    pc,               \* position in pack_atlas
    original_images,  \* decoded (name, img, ox, oy) tuples
    scale_idx,        \* position of `scale` in scale_factors
    images,           \* the (possibly scaled) tuples of this scale
    rects_to_place,   \* the padded rectangles handed to the packer
    bin_size,         \* candidate bin side
    pack_result,      \* Some(placements) / None
    output,           \* the RgbaImage being composed, with the copies made
    ret,              \* what the call returned
    attempts,         \* history: every pack_rects call, in order
    last_visit        \* history: per sprite name, the rect_id of that name
                      \* the compositing loop visited last

vars == <<sprites, padding, pc, original_images, scale_idx, images,
          rects_to_place, bin_size, pack_result, output, ret, attempts,
          last_visit>>

None == [some |-> FALSE, locs |-> <<>>]
Some(p) == [some |-> TRUE, locs |-> p]
NoImage == [w |-> 0, h |-> 0, copies |-> {}]
NotReturned == [kind |-> "none"]
Err(m) == [kind |-> "err", msg |-> m]
Ok(img, json) == [kind |-> "ok", image_base64 |-> img, json |-> json]

\* ----------------------------------------------------------- helpers
Max(a, b) == IF a >= b THEN a ELSE b
Abs(v) == IF v < 0 THEN -v ELSE v

\* f32::round of num/den (den > 0): to nearest, halves away from zero
RoundDiv(num, den) ==
    LET q == (2 * Abs(num) + den) \div (2 * den)
    IN  IF num < 0 THEN -q ELSE q

\* ((v as f32) * scale).round()
ScaleRound(v, pct) == RoundDiv(v * pct, 100)

\* mutant: the rounded size is used as it is, without .max(1)
ScaleDim_NoClamp(v, pct) == ScaleRound(v, pct)

\* new_width.max(1): the size resize_exact is given
ScaleDim(v, pct) == Max(ScaleRound(v, pct), 1)

\* the decoded tuple (name, img, offset_x, offset_y) of one sprite
Decoded(s) == [name |-> s.name, w |-> s.w, h |-> s.h, ox |-> s.offset_x, oy |-> s.offset_y]

\* the images of one scale: scaled when scale < 1.0, cloned otherwise
ScaledImage(im, pct) ==
    IF pct < 100
    THEN [name |-> im.name,
          w |-> ScaleDim(im.w, pct),
          h |-> ScaleDim(im.h, pct),
          ox |-> ScaleRound(im.ox, pct),
          oy |-> ScaleRound(im.oy, pct)]
    ELSE im

ScaledImages(orig, pct) == [i \in DOMAIN orig |-> ScaledImage(orig[i], pct)]

\* mutant: the padding is added once per axis, not on both sides
RectToInsert_PadOnce(im, pad) == [w |-> im.w + pad, h |-> im.h + pad]

\* RectToInsert::new(img.width() + padding * 2, img.height() + padding * 2, 1)
RectToInsert(im, pad) == [w |-> im.w + pad * 2, h |-> im.h + pad * 2]

RectsToPlace(imgs, pad) == [i \in DOMAIN imgs |-> RectToInsert(imgs[i], pad)]

\* -------------------------------------------------- rectangle packer
\* Sums of the members of the sets of numbers S: where a packer that splits
\* the free space at the edges of placed rectangles can put an edge.
RECURSIVE SubsetSums(_)
SubsetSums(S) ==
    IF S = {} THEN {0}
    ELSE LET v == CHOOSE u \in S : TRUE
             rest == SubsetSums(S \ {v})
         IN  rest \cup { r + v : r \in rest }

Overlap(p, q) ==
    /\ p.x < q.x + q.w
    /\ q.x < p.x + p.w
    /\ p.y < q.y + q.h
    /\ q.y < p.y + p.h

\* positions rectangle i may get in a bin of side bin
Candidates(rects, i, bin) ==
    LET others == DOMAIN rects \ {i}
        xs == { x \in SubsetSums({ rects[j].w : j \in others }) : x + rects[i].w <= bin }
        ys == { y \in SubsetSums({ rects[j].h : j \in others }) : y + rects[i].h <= bin }
    IN  { [x |-> x, y |-> y, w |-> rects[i].w, h |-> rects[i].h] : x \in xs, y \in ys }

\* the placements of rectangles 1..k, each at one of its candidate
\* positions cands[i]: inside the bin, pairwise disjoint
RECURSIVE Placements(_, _)
Placements(cands, k) ==
    IF k = 0 THEN { <<>> }
    ELSE UNION { { Append(p, c) :
                     c \in { d \in cands[k] :
                               \A j \in 1..(k - 1) : ~Overlap(p[j], d) } } :
                 p \in Placements(cands, k - 1) }

\* every rectangle sits at the origin of a free section: its left edge is
\* the bin's or the right edge of another rectangle, its lower edge the
\* bin's or the upper edge of another rectangle
Aligned(p) ==
    \A i \in DOMAIN p :
        /\ p[i].x = 0 \/ \E j \in DOMAIN p \ {i} : p[i].x = p[j].x + p[j].w
        /\ p[i].y = 0 \/ \E j \in DOMAIN p \ {i} : p[i].y = p[j].y + p[j].h

PackFailed == [ok |-> FALSE, locs |-> <<>>]
Packed(p) == [ok |-> TRUE, locs |-> p]

\* pack_rects(&rects_to_place, {0: TargetBin::new(bin, bin, 1)}, ..): what
\* the packer may answer.  Err(NotEnoughBinSpace) when nothing fits; the one
\* placement of a single rectangle that fits; for several rectangles any
\* valid placement, or failure (the heuristic may miss a placement).
pack_rects(rects, bin) ==
    LET cands == [i \in DOMAIN rects |-> Candidates(rects, i, bin)]
        ps == { p \in Placements(cands, Len(rects)) : Aligned(p) }
    IN  (IF Len(rects) > 1 \/ ps = {} THEN {PackFailed} ELSE {})
        \cup { Packed(p) : p \in ps }

\* ----------------------------------------------- compositing, manifest
\* mutant: the insert drops the entries made before
MapInsert_Replace(m, k, v) == [x \in {k} |-> v]

\* mutant: an entry already present is kept (entry().or_insert)
MapInsert_KeepFirst(m, k, v) ==
    [x \in DOMAIN m \cup {k} |-> IF x \in DOMAIN m THEN m[x] ELSE v]

\* BTreeMap::insert
MapInsert(m, k, v) == [x \in DOMAIN m \cup {k} |-> IF x = k THEN v ELSE m[x]]

\* the bounds loop: max over packed locations of loc.x() + loc.width()
RECURSIVE MaxRight(_, _)
MaxRight(locs, k) ==
    IF k = 0 THEN 0 ELSE Max(MaxRight(locs, k - 1), locs[k].x + locs[k].w)

RECURSIVE MaxBottom(_, _)
MaxBottom(locs, k) ==
    IF k = 0 THEN 0 ELSE Max(MaxBottom(locs, k - 1), locs[k].y + locs[k].h)

\* where sprite rect_id lands: x = loc.x() + padding, y = loc.y() + padding,
\* w = img.width(), h = img.height()
FrameRect(loc, im, pad) == [x |-> loc.x + pad, y |-> loc.y + pad, w |-> im.w, h |-> im.h]

\* mutant: the frame takes the size of the packed (padded) rectangle
PhaserFrame_PackedSize(loc, im, pad) ==
    [frame |-> [x |-> loc.x + pad, y |-> loc.y + pad, w |-> loc.w, h |-> loc.h],
     rotated |-> FALSE,
     trimmed |-> FALSE,
     spriteSourceSize |-> [x |-> 0, y |-> 0, w |-> loc.w, h |-> loc.h],
     sourceSize |-> [w |-> loc.w, h |-> loc.h],
     pivot |-> "0.5,0.5",
     offset |-> [x |-> im.ox, y |-> im.oy]]

PhaserFrame(loc, im, pad) ==
    LET r == FrameRect(loc, im, pad)
    IN  [frame |-> r,
         rotated |-> FALSE,
         trimmed |-> FALSE,
         spriteSourceSize |-> [x |-> 0, y |-> 0, w |-> r.w, h |-> r.h],
         sourceSize |-> [w |-> r.w, h |-> r.h],
         pivot |-> "0.5,0.5",
         offset |-> [x |-> im.ox, y |-> im.oy]]

\* GenericImage::copy_from(&img, x, y): fails when the copy leaves the canvas
CopyFits(canvas_w, canvas_h, r) == r.x + r.w <= canvas_w /\ r.y + r.h <= canvas_h

\* the orders in which `for (rect_id, ..) in placements.packed_locations()`
\* may visit the n placements: the loop takes the map's own order and
\* nothing in pack_atlas fixes it, so every order of the rect_ids
VisitOrders(n) ==
    { o \in [1..n -> 1..n] : \A i, j \in 1..n : i # j => o[i] # o[j] }

\* the compositing loop over the rectangles order[k..]: each sprite is
\* copied and its frame inserted under its name; the first copy that does
\* not fit ends the loop with an error
RECURSIVE ComposeFrom(_, _, _, _, _, _, _, _)
ComposeFrom(order, k, locs, imgs, pad, cw, ch, acc) ==
    IF k > Len(order) THEN acc
    ELSE LET id == order[k]
             r == FrameRect(locs[id], imgs[id], pad)
         IN  IF ~CopyFits(cw, ch, r)
             THEN [acc EXCEPT !.failed = TRUE]
             ELSE ComposeFrom(order, k + 1, locs, imgs, pad, cw, ch,
                    [failed |-> FALSE,
                     copies |-> acc.copies \cup {[id |-> id, x |-> r.x, y |-> r.y, w |-> r.w, h |-> r.h]},
                     visited |-> [n \in DOMAIN acc.visited \cup {imgs[id].name} |->
                                    IF n = imgs[id].name THEN id ELSE acc.visited[n]],
                     frames |-> MapInsert(acc.frames, imgs[id].name,
                                          PhaserFrame(locs[id], imgs[id], pad))])

\* mutant: the canvas is the bin that took the sprites
CanvasSize_Bin(locs, bin) == [w |-> bin, h |-> bin]

\* meta.size: the bounds found; the bin that took the sprites plays no part
CanvasSize(locs, bin) == [w |-> MaxRight(locs, Len(locs)), h |-> MaxBottom(locs, Len(locs))]

PhaserAtlas(frames, size, pct) ==
    [frames |-> frames,
     meta |-> [image |-> "atlas.png", size |-> size, scale |-> pct]]

\* ----------------------------------------------------- the loops' steps
\* mutant: the bin grows by its initial size instead of doubling
NextBinSize_Step(b) == b + InitialBinSize

\* bin_size *= 2
NextBinSize(b) == b * 2

\* mutant: the ceiling itself is never tried
BinsExhausted_Early(b) == b >= max_size

\* `if bin_size > max_size { break None }`
BinsExhausted(b) == b > max_size

\* mutant: every other factor is skipped
NextScaleIdx_Skip(i) == i + 2

\* `for &scale in &scale_factors`: the next position, past the end when done
NextScaleIdx(i) == i + 1

TypeOK ==
    /\ sprites \in SpriteInputs
    /\ padding \in Paddings
    /\ pc \in {"decode", "scale", "pack", "done"}
    /\ scale_idx \in 0..(Len(scale_factors) + 1)
    /\ ret.kind \in {"none", "ok", "err"}

Init ==
    /\ sprites \in SpriteInputs
    /\ padding \in Paddings
    /\ pc = "decode"
    /\ original_images = <<>>
    /\ scale_idx = 0
    /\ images = <<>>
    /\ rects_to_place = <<>>
    /\ bin_size = 0
    /\ pack_result = None
    /\ output = NoImage
    /\ ret = NotReturned
    /\ attempts = <<>>
    /\ last_visit = <<>>

\* lines 84-92: a sprite that does not decode ends the call
DecodeFails ==
    /\ pc = "decode"
    /\ \E i \in DOMAIN sprites : ~sprites[i].decodes
    /\ pc' = "done"
    /\ ret' = Err(ErrDecode)
    /\ UNCHANGED <<sprites, padding, original_images, scale_idx, images,
                   rects_to_place, bin_size, pack_result, output, attempts, last_visit>>

\* lines 94-96
DecodeEmpty ==
    /\ pc = "decode"
    /\ Len(sprites) = 0
    /\ pc' = "done"
    /\ ret' = Err(ErrEmpty)
    /\ UNCHANGED <<sprites, padding, original_images, scale_idx, images,
                   rects_to_place, bin_size, pack_result, output, attempts, last_visit>>

\* lines 84-103: all sprites decode; enter the scale loop
Decode ==
    /\ pc = "decode"
    /\ Len(sprites) > 0
    /\ \A i \in DOMAIN sprites : sprites[i].decodes
    /\ original_images' = [i \in DOMAIN sprites |-> Decoded(sprites[i])]
    /\ scale_idx' = 1
    /\ pc' = "scale"
    /\ UNCHANGED <<sprites, padding, images, rects_to_place, bin_size,
                   pack_result, output, ret, attempts, last_visit>>

\* lines 103-140: one pass of the scale loop up to the bin loop
ScaleStep ==
    /\ pc = "scale"
    /\ scale_idx <= Len(scale_factors)
    /\ images' = ScaledImages(original_images, scale_factors[scale_idx])
    /\ rects_to_place' = RectsToPlace(images', padding)
    /\ bin_size' = InitialBinSize
    /\ pack_result' = None
    /\ pc' = "pack"
    /\ UNCHANGED <<sprites, padding, original_images, scale_idx, output, ret, attempts,
                   last_visit>>

Attempt(ok) == [scale |-> scale_factors[scale_idx], bin |-> bin_size, ok |-> ok]

\* lines 142-152 and 163-222: the packer places everything; the bin loop
\* is left with Some(placements), and the bounds, the canvas, the copies,
\* the frames and the manifest follow, up to the return
PackOk ==
    /\ pc = "pack"
    /\ \E r \in pack_rects(rects_to_place, bin_size) :
        \E order \in VisitOrders(Len(rects_to_place)) :
          /\ r.ok
          /\ pack_result' = Some(r.locs)
          /\ LET locs == r.locs
                 size == CanvasSize(locs, bin_size)
                 c == ComposeFrom(order, 1, locs, images, padding,
                                  size.w, size.h,
                                  [failed |-> FALSE, copies |-> {}, visited |-> <<>>,
                                   frames |-> <<>>])
             IN  /\ output' = [w |-> size.w, h |-> size.h, copies |-> c.copies]
                 /\ last_visit' = c.visited
                 /\ ret' = IF c.failed
                           THEN Err(ErrCopy)
                           ELSE Ok(output', PhaserAtlas(c.frames, size, scale_factors[scale_idx]))
    /\ attempts' = Append(attempts, Attempt(TRUE))
    /\ pc' = "done"
    /\ UNCHANGED <<sprites, padding, original_images, scale_idx, images,
                   rects_to_place, bin_size>>

\* lines 153-158: the packer fails; double the bin, or leave with None and
\* go on to the next scale factor
PackErr ==
    /\ pc = "pack"
    /\ PackFailed \in pack_rects(rects_to_place, bin_size)
    /\ attempts' = Append(attempts, Attempt(FALSE))
    /\ bin_size' = NextBinSize(bin_size)
    /\ pack_result' = None
    /\ IF BinsExhausted(bin_size')
       THEN /\ scale_idx' = NextScaleIdx(scale_idx)
            /\ pc' = "scale"
       ELSE /\ pc' = "pack"
            /\ UNCHANGED scale_idx
    /\ UNCHANGED <<sprites, padding, original_images, images, rects_to_place,
                   output, ret, last_visit>>

\* mutant: an empty atlas is returned when nothing fits
GiveUp_EmptyAtlas ==
    /\ pc = "scale"
    /\ scale_idx > Len(scale_factors)
    /\ ret' = Ok(NoImage, PhaserAtlas(<<>>, [w |-> 0, h |-> 0], scale_factors[Len(scale_factors)]))
    /\ pc' = "done"
    /\ UNCHANGED <<sprites, padding, original_images, scale_idx, images,
                   rects_to_place, bin_size, pack_result, output, attempts, last_visit>>

\* line 225: the scale loop ran out
GiveUp ==
    /\ pc = "scale"
    /\ scale_idx > Len(scale_factors)
    /\ ret' = Err(ErrTooLarge)
    /\ pc' = "done"
    /\ UNCHANGED <<sprites, padding, original_images, scale_idx, images,
                   rects_to_place, bin_size, pack_result, output, attempts, last_visit>>

Next ==
    \/ DecodeFails
    \/ DecodeEmpty
    \/ Decode
    \/ ScaleStep
    \/ PackErr
    \/ PackOk
    \/ GiveUp

Spec == Init /\ [][Next]_vars

\* ---------------------------------------------------- reading a result
Done == pc = "done"
Succeeded == pc = "done" /\ ret.kind = "ok"
Frames == ret.json.frames
Meta == ret.json.meta
Locs == pack_result.locs
BinSizes == {256, 512, 1024, 2048}

NamesDistinct ==
    \A i, j \in DOMAIN sprites : i # j => sprites[i].name # sprites[j].name

\* the last sprite, in input order, that carries name n
LastNamed(n) ==
    CHOOSE i \in DOMAIN sprites :
        /\ sprites[i].name = n
        /\ \A j \in DOMAIN sprites : sprites[j].name = n => j <= i

\* the position of a factor in the list of scale factors
Pos(pct) == CHOOSE k \in DOMAIN scale_factors : scale_factors[k] = pct

\* the (scale factor, bin size) pairs at which the packer failed
FailedPairs ==
    { <<attempts[k].scale, attempts[k].bin>> :
        k \in { j \in DOMAIN attempts : ~attempts[j].ok } }

\* the pairs of the scale factors at positions 1..n with every bin size
PairsUpTo(n) == { <<scale_factors[k], b>> : k \in 1..n, b \in BinSizes }

\* r is v * pct / 100 rounded to the nearest integer, a half going away
\* from zero
IsRounded(r, v, pct) ==
    IF v >= 0
    THEN 100 * r - 50 <= v * pct /\ v * pct < 100 * r + 50
    ELSE 100 * r - 50 < v * pct /\ v * pct <= 100 * r + 50

\* x is max(1, r), r being v * pct / 100 rounded (v >= 0)
IsClampedRounded(x, v, pct) ==
    /\ x >= 1
    /\ IsRounded(x, v, pct) \/ (x = 1 /\ IsRounded(0, v, pct))

\* a frame rectangle grown by the padding on its four sides
Inflated(r) ==
    [x |-> r.x - padding, y |-> r.y - padding,
     w |-> r.w + 2 * padding, h |-> r.h + 2 * padding]

\* ------------------------------------------------------------------ C1
\* C1, as stated: whenever pack_atlas succeeds, the manifest has as many
\* frames as there are input sprites and every sprite name is a key.
C1_EveryInput ==
    Succeeded =>
        /\ Cardinality(DOMAIN Frames) = Len(sprites)
        /\ \A i \in DOMAIN sprites : sprites[i].name \in DOMAIN Frames

\* C1, amended: whenever pack_atlas succeeds on sprites with pairwise
\* distinct names, the manifest has as many frames as there are input
\* sprites and every sprite name is a key (of a map, so exactly once).
C1_DistinctNames ==
    (Succeeded /\ NamesDistinct) =>
        /\ Cardinality(DOMAIN Frames) = Len(sprites)
        /\ \A i \in DOMAIN sprites : sprites[i].name \in DOMAIN Frames

C1_Witness ==
    /\ Succeeded
    /\ Len(sprites) = 2
    /\ NamesDistinct
    /\ Cardinality(DOMAIN Frames) = 2

\* ------------------------------------------------------------------ C2
\* C2: on success every manifest frame rectangle lies inside the canvas
\* meta.size: x >= 0, y >= 0, x + w <= size.w, y + h <= size.h.
C2_FramesInsideCanvas ==
    Succeeded =>
        \A n \in DOMAIN Frames :
            LET r == Frames[n].frame
            IN  /\ r.x >= 0
                /\ r.y >= 0
                /\ r.x + r.w <= Meta.size.w
                /\ r.y + r.h <= Meta.size.h

C2_Witness ==
    /\ Succeeded
    /\ padding > 0
    /\ Cardinality(DOMAIN Frames) = 2
    /\ \E n \in DOMAIN Frames :
          Frames[n].frame.x + Frames[n].frame.w = Meta.size.w - padding

\* ------------------------------------------------------------------ C3
\* C3: on success, the packer's positions being pairwise disjoint, no two
\* manifest frame rectangles, each grown by the padding on all four sides,
\* overlap.
C3_InflatedFramesDisjoint ==
    Succeeded =>
        \A n, m \in DOMAIN Frames :
            n # m => ~Overlap(Inflated(Frames[n].frame), Inflated(Frames[m].frame))

C3_Witness ==
    /\ Succeeded
    /\ padding > 0
    /\ \E n, m \in DOMAIN Frames :
          /\ n # m
          /\ Frames[m].frame.x - padding = Frames[n].frame.x + Frames[n].frame.w + padding

\* ------------------------------------------------------------------ C4
\* C4: on success the canvas size of the manifest and of the output image
\* is the tight bounding box of the placed padded rectangles (largest
\* right edge, largest lower edge), whatever the bin size was.
C4_TightCanvas ==
    Succeeded =>
        /\ \A i \in DOMAIN Locs :
              /\ Locs[i].x + Locs[i].w <= Meta.size.w
              /\ Locs[i].y + Locs[i].h <= Meta.size.h
        /\ \E i \in DOMAIN Locs : Locs[i].x + Locs[i].w = Meta.size.w
        /\ \E i \in DOMAIN Locs : Locs[i].y + Locs[i].h = Meta.size.h
        /\ output.w = Meta.size.w
        /\ output.h = Meta.size.h

C4_Witness ==
    /\ Succeeded
    /\ Len(sprites) = 2
    /\ Meta.size.w < bin_size
    /\ Meta.size.h < bin_size

\* ------------------------------------------------------------------ C5
\* C5: the scale factors are tried in the strictly decreasing order of the
\* list, starting at 1.0; the scale of the manifest is the first factor at
\* which a bin took the sprites: every larger factor failed at every bin
\* size up to 2048, and a success at 1.0 is returned as scale 1.0.
C5_FirstFeasibleScale ==
    /\ \A i, j \in DOMAIN scale_factors : i < j => scale_factors[i] > scale_factors[j]
    /\ Len(attempts) > 0 => attempts[1].scale = scale_factors[1]
    /\ \A k \in 1..(Len(attempts) - 1) :
          \/ attempts[k + 1].scale = attempts[k].scale
          \/ Pos(attempts[k + 1].scale) = Pos(attempts[k].scale) + 1
    /\ Succeeded =>
          /\ attempts[Len(attempts)].ok
          /\ Meta.scale = attempts[Len(attempts)].scale
          /\ PairsUpTo(Pos(Meta.scale) - 1) \subseteq FailedPairs
          /\ (\E k \in DOMAIN attempts : attempts[k].scale = 100 /\ attempts[k].ok)
                => Meta.scale = 100

C5_Witness ==
    /\ Succeeded
    /\ Len(sprites) = 1
    /\ sprites[1].name = "g"
    /\ padding = 1
    /\ Meta.scale = 90

\* ------------------------------------------------------------------ C6
\* C6: when every scale factor failed at every bin size, pack_atlas
\* returns the "too large" error and neither a canvas nor a manifest.
C6_InfeasibleIsError ==
    (Done /\ PairsUpTo(Len(scale_factors)) \subseteq FailedPairs) =>
        /\ ret = Err(ErrTooLarge)
        /\ output = NoImage

C6_Witness ==
    /\ Done
    /\ Len(sprites) = 1
    /\ sprites[1].name = "d"
    /\ Len(attempts) = 40
    /\ ret = Err(ErrTooLarge)

\* ------------------------------------------------------------------ C7
\* C7, as stated: a single 5000x5000 sprite with padding 0 fails at every
\* bin size at every scale factor, and the call returns the error.
C7_5000Infeasible ==
    (Done /\ Len(sprites) = 1 /\ sprites[1].w = 5000 /\ sprites[1].h = 5000 /\ padding = 0) =>
        /\ \A k \in DOMAIN attempts : ~attempts[k].ok
        /\ ret = Err(ErrTooLarge)

\* C7, amended: a single 5000x5000 sprite with padding 0 fails at every
\* bin size at the scale factors 1.0 to 0.5, and at 0.4 (2000x2000) fails
\* at 256, 512 and 1024 and fits the 2048 bin: the call succeeds with
\* scale 0.4 and a 2000x2000 canvas, after 28 packer calls.
C7_5000FitsAt40 ==
    (Done /\ Len(sprites) = 1 /\ sprites[1].w = 5000 /\ sprites[1].h = 5000 /\ padding = 0) =>
        /\ ret.kind = "ok"
        /\ Meta.scale = 40
        /\ Meta.size = [w |-> 2000, h |-> 2000]
        /\ Len(attempts) = 28
        /\ \A k \in 1..27 : ~attempts[k].ok
        /\ attempts[28] = [scale |-> 40, bin |-> 2048, ok |-> TRUE]

C7_Witness ==
    /\ Done
    /\ Len(sprites) = 1
    /\ sprites[1].w = 5000
    /\ sprites[1].h = 5000
    /\ padding = 0

\* ------------------------------------------------------------------ C8
\* C8: at each scale factor the packer is called on the bins 256, 512,
\* 1024, 2048 in that order, the first success ends the search, no bin is
\* larger than 2048, the next scale factor is taken up only after the
\* 2048 bin failed, and a call makes at most 4 x 10 = 40 packer calls and
\* can always take its next step until it has returned.
C8_BinSearch ==
    /\ Len(attempts) <= 40
    /\ \A k \in DOMAIN attempts :
          /\ attempts[k].bin \in BinSizes
          /\ attempts[k].bin <= 2048
          /\ attempts[k].ok => k = Len(attempts)
    /\ Len(attempts) > 0 => attempts[1].bin = 256
    /\ \A k \in 1..(Len(attempts) - 1) :
          IF attempts[k + 1].scale = attempts[k].scale
          THEN attempts[k + 1].bin = 2 * attempts[k].bin
          ELSE attempts[k].bin = 2048 /\ attempts[k + 1].bin = 256
    /\ (pc = "scale" /\ Len(attempts) > 0) => attempts[Len(attempts)].bin = 2048
    /\ ~Done => ENABLED Next

C8_Witness ==
    /\ Succeeded
    /\ Len(sprites) = 1
    /\ sprites[1].name = "g"
    /\ padding = 0
    /\ Len(attempts) = 4
    /\ attempts[1] = [scale |-> 100, bin |-> 256, ok |-> FALSE]
    /\ attempts[2] = [scale |-> 100, bin |-> 512, ok |-> FALSE]
    /\ attempts[3] = [scale |-> 100, bin |-> 1024, ok |-> FALSE]
    /\ attempts[4] = [scale |-> 100, bin |-> 2048, ok |-> TRUE]

\* ------------------------------------------------------------------ C9
\* C9: with an accepted scale factor s below 1.0 every manifest frame has
\* w = max(1, round(width * s)), h = max(1, round(height * s)) and
\* offset = (round(offsetX * s), round(offsetY * s)), each rounded on its
\* own; with s = 1.0 sizes and offsets are the sprite's own.  No
\* rectangle handed to the packer has a sprite axis of 0, and the padding
\* is never scaled.  (A frame is the frame of a sprite that carries its
\* name.)
C9_UniformScaling ==
    /\ pc = "pack" =>
          \A i \in DOMAIN images :
              /\ images[i].w >= 1
              /\ images[i].h >= 1
              /\ rects_to_place[i].w = images[i].w + 2 * padding
              /\ rects_to_place[i].h = images[i].h + 2 * padding
    /\ Succeeded =>
          \A n \in DOMAIN Frames :
            \E i \in DOMAIN sprites :
              LET s == sprites[i]
                  f == Frames[n]
                  loc == Locs[i]
              IN  /\ s.name = n
                  /\ f.frame.x - loc.x = padding
                  /\ f.frame.y - loc.y = padding
                  /\ loc.w = f.frame.w + 2 * padding
                  /\ loc.h = f.frame.h + 2 * padding
                  /\ IF Meta.scale < 100
                     THEN /\ IsClampedRounded(f.frame.w, s.w, Meta.scale)
                          /\ IsClampedRounded(f.frame.h, s.h, Meta.scale)
                          /\ IsRounded(f.offset.x, s.offset_x, Meta.scale)
                          /\ IsRounded(f.offset.y, s.offset_y, Meta.scale)
                     ELSE /\ f.frame.w = s.w
                          /\ f.frame.h = s.h
                          /\ f.offset.x = s.offset_x
                          /\ f.offset.y = s.offset_y

C9_Witness ==
    /\ Succeeded
    /\ Len(sprites) = 1
    /\ sprites[1].w = 5000
    /\ sprites[1].h = 1
    /\ Meta.scale = 40
    /\ Frames["a"].frame.w = 2000
    /\ Frames["a"].frame.h = 1
    /\ Frames["a"].offset = [x |-> -1, y |-> 2]

\* ----------------------------------------------------------------- C10
\* what the manifest entry of name n must be when it describes sprite i
DescribesSprite(n, i) ==
    /\ sprites[i].name = n
    /\ Frames[n].frame = [x |-> Locs[i].x + padding, y |-> Locs[i].y + padding,
                          w |-> images[i].w, h |-> images[i].h]
    /\ Frames[n].sourceSize = [w |-> images[i].w, h |-> images[i].h]
    /\ Frames[n].offset = [x |-> images[i].ox, y |-> images[i].oy]

\* sprites sharing a name are not rejected (a call fails only for an
\* undecodable sprite, an empty list or sprites too large), and on success
\* every sprite has been copied into the canvas, once, at its own place,
\* and the manifest has one entry per name
DuplicatesAccepted ==
    /\ (Done /\ ret.kind = "err") => ret.msg \in {ErrDecode, ErrEmpty, ErrTooLarge}
    /\ (Succeeded /\ ~NamesDistinct) =>
          /\ Cardinality(output.copies) = Len(sprites)
          /\ \A i \in DOMAIN sprites :
                \E c \in output.copies :
                    /\ c.id = i
                    /\ c.x = Locs[i].x + padding
                    /\ c.y = Locs[i].y + padding
                    /\ c.w = images[i].w
                    /\ c.h = images[i].h
          /\ DOMAIN Frames = { sprites[i].name : i \in DOMAIN sprites }

====
